---- MODULE Spec2Model ----
(***************************************************************************)
(* nvtispflash: the ISP session of src/nvtispflash.c as a state machine.   *)
(* One action per step of main() between two transport calls; the serial   *)
(* device (the bootloader at the other end) is the environment and picks   *)
(* each write's outcome and each reply.                                    *)
(***************************************************************************)
EXTENDS Integers, Sequences, FiniteSets, TLC

VARIABLES
    pc,             \* position of main()
    exit_status,    \* -1 while running, else the process's exit status
    rc,             \* the last return code ("OK" or an errno name)
    pkt_num,        \* dev.pkt_num
    checksum,       \* dev.checksum
    ack,            \* dev.ack, the last full reply read
    aprom_size,     \* dev.aprom_size
    aprom_file,     \* dev.aprom_file: -1 when not given, else the file's size
    remain_isp,     \* dev.remain_isp
    has_config_opts,
    config_current, \* dev.config_current.raw
    config_new,     \* dev.config_new.raw
    config_mask,    \* dev.config_mask.raw
    config_update,  \* set_new_config_options' local config_update.raw
    cmd,            \* the struct pkt_cmd last handed to send_cmd
    wire,           \* every frame the transport has taken, in order
    writes,         \* number of sp_blocking_write calls made so far
    reads,          \* number of read_response calls made so far
    silent,         \* how many of them found no full 64-byte reply
    sp_rc,          \* what the last sp_*_read returned: "len", "short", "error"
    timeout,        \* timeout_ms of the last read_response call
    nopts,          \* command line options consumed so far
    first,          \* dev_update_aprom's local first
    total_length,   \* dev_update_aprom's local total_length
    offset,         \* dev_update_aprom's p - buf
    to_copy,        \* dev_update_aprom's local to_copy
    blocks          \* the sizes printed by "sending block of %d bytes"

vars == <<pc, exit_status, rc, pkt_num, checksum, ack, aprom_size, aprom_file,
          remain_isp, has_config_opts, config_current, config_new, config_mask,
          config_update, cmd, wire, writes, reads, silent, sp_rc, timeout, nopts, first, total_length, offset,
          to_copy, blocks>>

(***************************************************************************)
(* Bounds of the model.                                                    *)
(***************************************************************************)
MaxProbes == 3      \* CONNECT frames sent before the model stops probing
MaxOpts == 3        \* command line options parsed

(***************************************************************************)
(* Program constants.                                                      *)
(***************************************************************************)
U16 == 65536
CMD_CONNECT == 174
CMD_GET_DEVICEID == 177
CMD_GET_FWVER == 166
CMD_READ_CONFIG == 162
CMD_RUN_APROM == 171
CMD_SYNC_PACKNO == 164
CMD_UPDATE_APROM == 160
CMD_UPDATE_CONFIG == 161
CMD_CONTINUE == 0
PKT_SIZE == 64
PAD_SIZE == 56
APROM_DATA_SIZE == 48
APROM2_DATA_SIZE == 56
CONFIG_SIZE == 5
INITIAL_PKT_NUM == 23
N76E003_ID == 13904
KB == 1024
RPD_BIT == 4
SERIAL_TIMEOUT == 5000
BUF_SIZE == 18432
NONBLOCKING == 0

(***************************************************************************)
(* Byte-level helpers: C's &, |, ~ on uint8_t, little-endian uint32_t.      *)
(***************************************************************************)
RECURSIVE AndBits(_, _, _)
AndBits(a, b, n) ==
    IF n = 0 THEN 0
    ELSE ((a % 2) * (b % 2)) + 2 * AndBits(a \div 2, b \div 2, n - 1)

RECURSIVE OrBits(_, _, _)
OrBits(a, b, n) ==
    IF n = 0 THEN 0
    ELSE (IF (a % 2) + (b % 2) > 0 THEN 1 ELSE 0)
         + 2 * OrBits(a \div 2, b \div 2, n - 1)

And8(a, b) == AndBits(a, b, 8)
Or8(a, b) == OrBits(a, b, 8)
Not8(a) == 255 - a

LE32(n) == << n % 256, (n \div 256) % 256, (n \div 65536) % 256,
              (n \div 16777216) % 256 >>

\* A uint32_t that may use all 32 bits (the packet counter) is kept as its two
\* 16-bit halves; TLC's integers stop short of 2^32.
U32(n) == [hi |-> (n \div U16) % U16, lo |-> n % U16]

LE32Halves(u) == << u.lo % 256, u.lo \div 256, u.hi % 256, u.hi \div 256 >>

\* u + n modulo 2^32, for 0 <= n < 2^16
Add32(u, n) == [hi |-> (u.hi + ((u.lo + n) \div U16)) % U16,
                lo |-> (u.lo + n) % U16]

\* u - 1 modulo 2^32
Pred32(u) == IF u.lo > 0 THEN [hi |-> u.hi, lo |-> u.lo - 1]
             ELSE [hi |-> (u.hi + U16 - 1) % U16, lo |-> U16 - 1]

FromLE32(s) == s[1] + 256 * s[2] + 65536 * s[3] + 16777216 * s[4]

Zeros(n) == [i \in 1..n |-> 0]

\* A payload: the given leading bytes, the rest of the 56 left zero (cmd = {}).
Pad(lead) == lead \o Zeros(PAD_SIZE - Len(lead))

\* struct pkt_cmd cmd = {}
ZeroCmd == [cmd |-> 0, pkt_num |-> U32(0), pad |-> Zeros(PAD_SIZE)]

\* The 64 bytes of a struct pkt_cmd as they lie in memory.
FrameBytes(f) == LE32(f.cmd) \o LE32Halves(f.pkt_num) \o f.pad

RECURSIVE SumBytes(_, _)
SumBytes(s, i) ==
    IF i > PKT_SIZE THEN 0 ELSE s[i] + SumBytes(s, i + 1)

\* The sum of 64 bytes is at most 64 * 255: uint32_t sum never wraps.
calc_checksum(f) == SumBytes(FrameBytes(f), 1)

(***************************************************************************)
(* Inputs: the command line, the image file and the device's replies.      *)
(***************************************************************************)
\* Sizes of the file given with -a.
ImageSizes == {0, 1, 48, 49, 105, 236, 18433}

\* The image's byte at an offset (a fixed, non-constant pattern).
ImageByte(i) == (37 * i + 1) % 256

\* Arguments of one -c option: comma separated sub-options.
SubOpt(name, value) == [name |-> name, value |-> value]

ConfigArgs == { << SubOpt("rpd", "0") >>, << SubOpt("rpd", "1") >>,
                << SubOpt("rpd", "1"), SubOpt("rpd", "0") >>,
                << SubOpt("rpd", "2") >>,
                << SubOpt("rpd", "1"), SubOpt("foo", "1") >> }

\* Config bytes a device may report when main() reads them: every LDSIZE
\* from 0 to 7, RPD clear with the even ones and set with the odd ones.
DeviceConfigs ==
    { <<IF k % 2 = 0 THEN 107 ELSE 111, 248 + k, 255, 255, 255>> : k \in 0..7 }

\* Config bytes a device may report when they are read back after a write:
\* RPD clear / LDSIZE 0, RPD set / LDSIZE 7.
RewrittenConfigs == { <<107, 248, 255, 255, 255>>, <<111, 255, 255, 255, 255>> }

DeviceIds == { N76E003_ID, 4660, 79440 }

FwVersions == { 39 }

\* Fewer than 64 bytes within the timeout, and a failed read (a negative
\* return of sp_blocking_read / sp_nonblocking_read).
NoReply == [short |-> TRUE, error |-> FALSE]
IoError == [short |-> TRUE, error |-> TRUE]

\* The full 64-byte replies the device may give to the frame just sent: the
\* checksum right or off by one, the packet number the command's or the next.
Acks(pads) ==
    { [short |-> FALSE, error |-> FALSE, checksum |-> cs, pkt_num |-> pn, pad |-> Pad(p)] :
        cs \in { checksum, checksum + 1 },
        pn \in { pkt_num, Pred32(pkt_num) },
        p \in pads }

Replies(pads) == { NoReply, IoError } \cup Acks(pads)

\* The device's acks of the frames sent before the last one, arriving late:
\* each carries its own frame's packet number plus one and its own frame's
\* byte sum.
LateAcks ==
    { [short |-> FALSE, error |-> FALSE, checksum |-> calc_checksum(wire[i]),
       pkt_num |-> Add32(wire[i].pkt_num, 1), pad |-> Pad(<< >>)] :
        i \in 1..(Len(wire) - 1) }

(***************************************************************************)
(* send_cmd and read_response.                                             *)
(***************************************************************************)
\* Mutant: the increment is forgotten.
NextPktNum_Stuck(n) == n

\* Mutant: the counter is incremented as a 16-bit value.
NextPktNum_NoCarry(n) == [hi |-> n.hi, lo |-> (n.lo + 1) % U16]

\* dev->pkt_num++ on a uint32_t
NextPktNum(n) == Add32(n, 1)

\* cmd->pkt_num = dev->pkt_num
Stamp(c, n) == [c EXCEPT !.pkt_num = n]

\* Mutant: the checksum is taken before the packet number is stamped.
send_cmd_ChecksumBeforeStamp(c, wrote) ==
    /\ cmd' = Stamp(c, pkt_num)
    /\ checksum' = calc_checksum(c)
    /\ writes' = writes + 1
    /\ wire' = IF wrote THEN Append(wire, Stamp(c, pkt_num)) ELSE wire
    /\ pkt_num' = IF wrote THEN NextPktNum(pkt_num) ELSE pkt_num
    /\ rc' = IF wrote THEN "OK" ELSE "ETIMEDOUT"

\* send_cmd: stamp, record the checksum, write; the counter moves only when
\* the transport took all 64 bytes.
send_cmd(c, wrote) ==
    /\ cmd' = Stamp(c, pkt_num)
    /\ checksum' = calc_checksum(Stamp(c, pkt_num))
    /\ writes' = writes + 1
    /\ wire' = IF wrote THEN Append(wire, Stamp(c, pkt_num)) ELSE wire
    /\ pkt_num' = IF wrote THEN NextPktNum(pkt_num) ELSE pkt_num
    /\ rc' = IF wrote THEN "OK" ELSE "ETIMEDOUT"

\* Mutant: every full reply is taken as valid.
CheckAck_AcceptsAll(a, n, cs) == "OK"

\* Mutant: the checksum of the reply is not looked at.
CheckAck_NoChecksum(a, n, cs) == IF a.pkt_num # n THEN "EIO" ELSE "OK"

\* Mutant: the packet number of the reply is not looked at.
CheckAck_NoSequence(a, n, cs) == IF a.checksum # cs THEN "EIO" ELSE "OK"

\* The checks read_response makes on a full reply.
CheckAck(a, n, cs) ==
    IF a.pkt_num # n THEN "EIO"
    ELSE IF a.checksum # cs THEN "EIO"
    ELSE "OK"

\* Mutant: a read that brought fewer than 64 bytes counts as a success.
ReadResult_ShortIsOk(reply) ==
    IF reply.short THEN "OK" ELSE CheckAck(reply, pkt_num, checksum)

\* read_response's return code for a reply.
ReadResult(reply) ==
    IF reply.short THEN "ETIMEDOUT" ELSE CheckAck(reply, pkt_num, checksum)

\* read_response: a full reply lands in dev->ack whether or not it is valid.
read_response(reply, timeout_ms) ==
    /\ reads' = reads + 1
    /\ timeout' = timeout_ms
    /\ sp_rc' = IF reply.error THEN "error"
                ELSE IF reply.short THEN "short" ELSE "len"
    /\ silent' = IF reply.short THEN silent + 1 ELSE silent
    /\ ack' = IF reply.short THEN ack
              ELSE [checksum |-> reply.checksum, pkt_num |-> reply.pkt_num,
                    pad |-> reply.pad]
    /\ rc' = ReadResult(reply)

\* errx(EXIT_FAILURE, ...)
Errx == pc' = "exit" /\ exit_status' = 1

args == <<aprom_file, remain_isp, has_config_opts, config_new, config_mask, nopts>>
flash == <<first, total_length, offset, to_copy, blocks>>
cfg == <<config_current, config_update, aprom_size>>
sent == <<cmd, checksum, wire, writes, pkt_num>>
rcvd == <<ack, reads, silent, sp_rc, timeout>>

(***************************************************************************)
(* The command line.                                                       *)
(***************************************************************************)
\* Mutant: the value is stored at bit 0 whatever the field's bit is.
SetBit_Bit0(b, w, v) == Or8(And8(b, Not8(1)), v)

\* A one-bit bit-field store: field = v at the bit of weight w.
SetBit(b, w, v) == Or8(And8(b, Not8(w)), v * w)

\* atoi of a value already checked to be "0" or "1"
Atoi(value) == IF value = "1" THEN 1 ELSE 0

\* process_config_options over the sub-options of one -c argument.
RECURSIVE process_config_options(_, _, _)
process_config_options(subopts, new, mask) ==
    IF subopts = << >> THEN [rc |-> "OK", new |-> new, mask |-> mask]
    ELSE LET o == Head(subopts) IN
         IF o.name # "rpd" THEN [rc |-> "EINVAL", new |-> new, mask |-> mask]
         ELSE IF o.value \notin {"0", "1"}
         THEN [rc |-> "EINVAL", new |-> new, mask |-> mask]
         ELSE process_config_options(
                  Tail(subopts),
                  [new EXCEPT ![1] = SetBit(new[1], RPD_BIT, Atoi(o.value))],
                  [mask EXCEPT ![1] = SetBit(mask[1], RPD_BIT, 1)])

Init ==
    /\ pc = "args"
    /\ exit_status = -1
    /\ rc = "OK"
    /\ pkt_num = U32(0)
    /\ checksum = 0
    /\ ack = [checksum |-> 0, pkt_num |-> U32(0), pad |-> Zeros(PAD_SIZE)]
    /\ aprom_size = 0
    /\ aprom_file = -1
    /\ remain_isp = FALSE
    /\ has_config_opts = FALSE
    /\ config_current = Zeros(CONFIG_SIZE)
    /\ config_new = Zeros(CONFIG_SIZE)
    /\ config_mask = Zeros(CONFIG_SIZE)
    /\ config_update = Zeros(CONFIG_SIZE)
    /\ cmd = ZeroCmd
    /\ wire = << >>
    /\ writes = 0
    /\ reads = 0
    /\ silent = 0
    /\ sp_rc = "len"
    /\ timeout = NONBLOCKING
    /\ nopts = 0
    /\ first = TRUE
    /\ total_length = 0
    /\ offset = 0
    /\ to_copy = 0
    /\ blocks = << >>

\* case 'a'
OptAprom ==
    /\ pc = "args" /\ nopts < MaxOpts
    /\ \E size \in ImageSizes : aprom_file' = size
    /\ nopts' = nopts + 1
    /\ UNCHANGED <<pc, exit_status, rc, remain_isp, has_config_opts, config_new,
                   config_mask, flash, cfg, sent, rcvd>>

\* case 'c'
OptConfig ==
    /\ pc = "args" /\ nopts < MaxOpts
    /\ \E arg \in ConfigArgs :
         LET r == process_config_options(arg, config_new, config_mask) IN
         /\ config_new' = r.new
         /\ config_mask' = r.mask
         /\ rc' = r.rc
         /\ IF r.rc # "OK"
            THEN pc' = "exit" /\ exit_status' = 1
                 /\ UNCHANGED has_config_opts
            ELSE has_config_opts' = TRUE /\ UNCHANGED <<pc, exit_status>>
    /\ nopts' = nopts + 1
    /\ UNCHANGED <<aprom_file, remain_isp, flash, cfg, sent, rcvd>>

\* case 'r'
OptRemainIsp ==
    /\ pc = "args" /\ nopts < MaxOpts
    /\ remain_isp' = TRUE
    /\ nopts' = nopts + 1
    /\ UNCHANGED <<pc, exit_status, rc, aprom_file, has_config_opts, config_new,
                   config_mask, flash, cfg, sent, rcvd>>

\* End of the options: the port is opened and the counter seeded.
ArgsDone ==
    /\ pc = "args"
    /\ pkt_num' = U32(INITIAL_PKT_NUM)
    /\ pc' = "connect_send"
    /\ UNCHANGED <<exit_status, rc, args, flash, cfg, cmd, checksum, wire,
                   writes, rcvd>>

(***************************************************************************)
(* dev_connect.                                                            *)
(***************************************************************************)
ConnectSend ==
    /\ pc = "connect_send" /\ writes < MaxProbes
    /\ \E wrote \in BOOLEAN :
         /\ send_cmd([ZeroCmd EXCEPT !.cmd = CMD_CONNECT], wrote)
         /\ IF wrote THEN pc' = "connect_read" /\ UNCHANGED exit_status
            ELSE Errx
    /\ UNCHANGED <<args, flash, cfg, rcvd>>

\* Mutant: dev_connect gives up after two unanswered probes.
ConnectRead_GivesUp ==
    /\ pc = "connect_read"
    /\ \E reply \in Replies({ << >> }) \cup LateAcks :
         /\ read_response(reply, NONBLOCKING)
         /\ IF ReadResult(reply) = "OK"
            THEN pc' = "sync_send" /\ UNCHANGED exit_status
            ELSE IF writes < 2
            THEN pc' = "connect_send" /\ UNCHANGED exit_status
            ELSE Errx
    /\ UNCHANGED <<args, flash, cfg, sent>>

ConnectRead ==
    /\ pc = "connect_read"
    /\ \E reply \in Replies({ << >> }) \cup LateAcks :
         /\ read_response(reply, NONBLOCKING)
         /\ pc' = IF ReadResult(reply) = "OK" THEN "sync_send" ELSE "connect_send"
    /\ UNCHANGED <<exit_status, args, flash, cfg, sent>>

(***************************************************************************)
(* One command and its ack: send_cmd, then read_response(SERIAL_TIMEOUT).  *)
(***************************************************************************)
SendAt(at, c, then) ==
    /\ pc = at
    /\ \E wrote \in BOOLEAN :
         /\ send_cmd(c, wrote)
         /\ IF wrote THEN pc' = then /\ UNCHANGED exit_status ELSE Errx

\* generic_command(dev, opcode)'s frame
GenericCmd(opcode) == [ZeroCmd EXCEPT !.cmd = opcode]

\* dev_sync_packno's rn: cmd.pkt_num of the local, still zeroed, cmd
SyncRn == ZeroCmd.pkt_num

SyncSend ==
    /\ SendAt("sync_send",
              [ZeroCmd EXCEPT !.cmd = CMD_SYNC_PACKNO, !.pad = Pad(LE32Halves(SyncRn))],
              "sync_read")
    /\ UNCHANGED <<args, flash, cfg, rcvd>>

SyncRead ==
    /\ pc = "sync_read"
    /\ \E reply \in Replies({ << >> }) :
         /\ read_response(reply, SERIAL_TIMEOUT)
         /\ IF ReadResult(reply) = "OK"
            THEN pc' = "fwver_send" /\ UNCHANGED exit_status
            ELSE Errx
    /\ UNCHANGED <<args, flash, cfg, sent>>

FwverSend ==
    /\ SendAt("fwver_send", GenericCmd(CMD_GET_FWVER), "fwver_read")
    /\ UNCHANGED <<args, flash, cfg, rcvd>>

FwverRead ==
    /\ pc = "fwver_read"
    /\ \E reply \in Replies({ <<v>> : v \in FwVersions }) :
         /\ read_response(reply, SERIAL_TIMEOUT)
         /\ IF ReadResult(reply) = "OK"
            THEN pc' = "devid_send" /\ UNCHANGED exit_status
            ELSE Errx
    /\ UNCHANGED <<args, flash, cfg, sent>>

DevidSend ==
    /\ SendAt("devid_send", GenericCmd(CMD_GET_DEVICEID), "devid_read")
    /\ UNCHANGED <<args, flash, cfg, rcvd>>

\* dev.ack.get_deviceid.deviceid
AckDeviceId(a) == FromLE32(SubSeq(a.pad, 1, 4))

\* Mutant: the id is compared as a 16-bit value.
DeviceKnown_Low16(id) == id % U16 = N76E003_ID

\* The switch on the device id: only the N76E003 goes on.
DeviceKnown(id) == id = N76E003_ID

DevidRead ==
    /\ pc = "devid_read"
    /\ \E reply \in Replies({ LE32(id) : id \in DeviceIds }) :
         /\ read_response(reply, SERIAL_TIMEOUT)
         /\ IF ReadResult(reply) = "OK" /\ DeviceKnown(AckDeviceId(reply))
            THEN pc' = "rdcfg_send" /\ UNCHANGED exit_status
            ELSE Errx
    /\ UNCHANGED <<args, flash, cfg, sent>>

(***************************************************************************)
(* READ_CONFIG and set_new_config_options.                                 *)
(***************************************************************************)
\* dev.ack.read_config.raw
AckConfig(a) == SubSeq(a.pad, 1, CONFIG_SIZE)

\* Mutant: only two bits of the field are used.
LdsizeField_TwoBits(config) == config[2] % 4

\* The ldsize bit-field: the low 3 bits of config byte 1.
LdsizeField(config) == config[2] % 8

\* ldsize[i].aprom_size
LdsizeAprom(i) == << 14, 14, 14, 14, 15, 16, 17, 18 >>[i + 1]

\* Mutant: the APROM is started whatever remain_isp says.
AfterFlash_IgnoresRemainIsp == "run_aprom"

\* Where main() goes once the config is read and, if asked, written.
AfterFlash == IF remain_isp THEN "finish" ELSE "run_aprom"
AfterConfig == IF aprom_file # -1 THEN "flash_open" ELSE AfterFlash

RdcfgSend ==
    /\ SendAt("rdcfg_send", GenericCmd(CMD_READ_CONFIG), "rdcfg_read")
    /\ UNCHANGED <<args, flash, cfg, rcvd>>

RdcfgRead ==
    /\ pc = "rdcfg_read"
    /\ \E reply \in Replies(DeviceConfigs) :
         /\ read_response(reply, SERIAL_TIMEOUT)
         /\ IF ReadResult(reply) = "OK"
            THEN /\ config_current' = AckConfig(reply)
                 /\ aprom_size' = LdsizeAprom(LdsizeField(AckConfig(reply))) * KB
                 /\ pc' = IF has_config_opts THEN "setcfg" ELSE AfterConfig
                 /\ UNCHANGED exit_status
            ELSE Errx /\ UNCHANGED <<config_current, aprom_size>>
    /\ UNCHANGED <<args, flash, config_update, sent>>

\* One byte of config_update: current & ~mask, then |= new.
MergeByte(current, new, mask) == Or8(And8(current, Not8(mask)), new)

MergeConfig(current, new, mask) ==
    [i \in 1..CONFIG_SIZE |-> MergeByte(current[i], new[i], mask[i])]

\* Mutant: changes is set whatever the bytes are.
ConfigChanges_Always(update, current) == TRUE

\* changes: some byte of config_update differs from config_current
ConfigChanges(update, current) ==
    \E i \in 1..CONFIG_SIZE : update[i] # current[i]

\* set_new_config_options up to its first transport call: the merge, the
\* early return when nothing changes, else UPDATE_CONFIG is sent.
SetNewConfigOptions ==
    /\ pc = "setcfg"
    /\ LET update == MergeConfig(config_current, config_new, config_mask) IN
       /\ config_update' = update
       /\ IF ~ConfigChanges(update, config_current)
          THEN /\ rc' = "OK"
               /\ pc' = AfterConfig
               /\ UNCHANGED <<exit_status, sent>>
          ELSE \E wrote \in BOOLEAN :
                 /\ send_cmd([ZeroCmd EXCEPT !.cmd = CMD_UPDATE_CONFIG,
                                             !.pad = Pad(update)], wrote)
                 /\ IF wrote THEN pc' = "updcfg_read" /\ UNCHANGED exit_status
                    ELSE Errx
    /\ UNCHANGED <<args, flash, config_current, aprom_size, rcvd>>

\* Mutant: the ack of UPDATE_CONFIG is not read.
UpdcfgRead_NoRead ==
    /\ pc = "updcfg_read"
    /\ pc' = "rdcfg2_send"
    /\ UNCHANGED <<exit_status, rc, args, flash, cfg, sent, rcvd>>

UpdcfgRead ==
    /\ pc = "updcfg_read"
    /\ \E reply \in Replies({ << >> }) :
         /\ read_response(reply, SERIAL_TIMEOUT)
         /\ IF ReadResult(reply) = "OK"
            THEN pc' = "rdcfg2_send" /\ UNCHANGED exit_status
            ELSE Errx
    /\ UNCHANGED <<args, flash, cfg, sent>>

Rdcfg2Send ==
    /\ SendAt("rdcfg2_send", GenericCmd(CMD_READ_CONFIG), "rdcfg2_read")
    /\ UNCHANGED <<args, flash, cfg, rcvd>>

\* Mutant: the bytes sent are taken as the new current configuration.
Rdcfg2Read_KeepsSent ==
    /\ pc = "rdcfg2_read"
    /\ \E reply \in Replies(RewrittenConfigs) :
         /\ reads' = reads + 1
         /\ timeout' = SERIAL_TIMEOUT
         /\ sp_rc' = IF reply.error THEN "error"
                     ELSE IF reply.short THEN "short" ELSE "len"
         /\ silent' = IF reply.short THEN silent + 1 ELSE silent
         /\ ack' = IF reply.short THEN ack
                   ELSE [checksum |-> reply.checksum, pkt_num |-> reply.pkt_num,
                         pad |-> reply.pad]
         /\ IF ReadResult(reply) = "OK"
            THEN /\ rc' = "OK"
                 /\ config_current' = config_update
                 /\ pc' = AfterConfig
                 /\ UNCHANGED exit_status
            ELSE rc' = "EIO" /\ Errx /\ UNCHANGED config_current
    /\ UNCHANGED <<args, flash, config_update, aprom_size, sent>>

Rdcfg2Read ==
    /\ pc = "rdcfg2_read"
    /\ \E reply \in Replies(RewrittenConfigs) :
         /\ reads' = reads + 1
         /\ timeout' = SERIAL_TIMEOUT
         /\ sp_rc' = IF reply.error THEN "error"
                     ELSE IF reply.short THEN "short" ELSE "len"
         /\ silent' = IF reply.short THEN silent + 1 ELSE silent
         /\ ack' = IF reply.short THEN ack
                   ELSE [checksum |-> reply.checksum, pkt_num |-> reply.pkt_num,
                         pad |-> reply.pad]
         /\ IF ReadResult(reply) = "OK"
            THEN /\ rc' = "OK"
                 /\ config_current' = AckConfig(reply)
                 /\ pc' = AfterConfig
                 /\ UNCHANGED exit_status
            ELSE rc' = "EIO" /\ Errx /\ UNCHANGED config_current
    /\ UNCHANGED <<args, flash, config_update, aprom_size, sent>>

(***************************************************************************)
(* dev_update_aprom.                                                       *)
(***************************************************************************)
\* Mutant: the comparison with dev->aprom_size is missing.
SizeCheck_NoLimit(size, capacity) == IF size = 0 THEN "EBADF" ELSE "OK"

\* The checks on the file's size, before anything is sent.
SizeCheck(size, capacity) ==
    IF size = 0 THEN "EBADF"
    ELSE IF size > capacity THEN "E2BIG"
    ELSE "OK"

\* open, fstat, the size checks and the one read() of the whole file.
FlashOpen ==
    /\ pc = "flash_open"
    /\ \E file \in {"ok", "open fails", "short read"} :
         LET r == IF file = "open fails" THEN "ERRNO"
                  ELSE IF SizeCheck(aprom_file, aprom_size) # "OK"
                  THEN SizeCheck(aprom_file, aprom_size)
                  ELSE IF file = "short read" THEN "EIO"
                  ELSE "OK"
         IN /\ rc' = r
            /\ IF r = "OK"
               THEN /\ total_length' = aprom_file
                    /\ offset' = 0
                    /\ pc' = IF aprom_file # 0 THEN "flash_send" ELSE AfterFlash
                    /\ UNCHANGED exit_status
               ELSE Errx /\ UNCHANGED <<total_length, offset>>
    /\ UNCHANGED <<args, first, to_copy, blocks, cfg, sent, rcvd>>

\* Mutant: a block is always a full data field.
BlockSize_Full(left, room) == room

\* to_copy: what is left, at most the frame's data field.
BlockSize(left, room) == IF left > room THEN room ELSE left

\* memcpy(data, p, to_copy) into a zeroed data field
ImageData(from, n) == [i \in 1..n |-> ImageByte(from + i - 1)]

\* The frame of one loop iteration.
FlashCmd(isfirst, left, from) ==
    IF isfirst
    THEN [ZeroCmd EXCEPT
            !.cmd = CMD_UPDATE_APROM,
            !.pad = Pad(LE32(0) \o LE32(left)
                        \o ImageData(from, BlockSize(left, APROM_DATA_SIZE)))]
    ELSE [ZeroCmd EXCEPT
            !.cmd = CMD_CONTINUE,
            !.pad = Pad(ImageData(from, BlockSize(left, APROM2_DATA_SIZE)))]

FlashSend ==
    /\ pc = "flash_send"
    /\ first' = FALSE
    /\ to_copy' = BlockSize(total_length,
                            IF first THEN APROM_DATA_SIZE ELSE APROM2_DATA_SIZE)
    /\ blocks' = Append(blocks, to_copy')
    /\ \E wrote \in BOOLEAN :
         /\ send_cmd(FlashCmd(first, total_length, offset), wrote)
         /\ IF wrote THEN pc' = "flash_read" /\ UNCHANGED exit_status ELSE Errx
    /\ UNCHANGED <<args, total_length, offset, cfg, rcvd>>

\* Mutant: a flash frame whose ack is missing or invalid is sent again.
FlashRead_Resends ==
    /\ pc = "flash_read"
    /\ \E reply \in Replies({ << >> }) :
         /\ read_response(reply, SERIAL_TIMEOUT)
         /\ IF ReadResult(reply) = "OK"
            THEN /\ total_length' = total_length - to_copy
                 /\ offset' = offset + to_copy
                 /\ pc' = IF total_length - to_copy # 0 THEN "flash_send"
                          ELSE AfterFlash
                 /\ UNCHANGED exit_status
            ELSE pc' = "flash_send" /\ UNCHANGED <<exit_status, total_length, offset>>
    /\ UNCHANGED <<args, first, to_copy, blocks, cfg, sent>>

FlashRead ==
    /\ pc = "flash_read"
    /\ \E reply \in Replies({ << >> }) :
         /\ read_response(reply, SERIAL_TIMEOUT)
         /\ IF ReadResult(reply) = "OK"
            THEN /\ total_length' = total_length - to_copy
                 /\ offset' = offset + to_copy
                 /\ pc' = IF total_length - to_copy # 0 THEN "flash_send"
                          ELSE AfterFlash
                 /\ UNCHANGED exit_status
            ELSE Errx /\ UNCHANGED <<total_length, offset>>
    /\ UNCHANGED <<args, first, to_copy, blocks, cfg, sent>>

(***************************************************************************)
(* The end of main().                                                      *)
(***************************************************************************)
\* dev_run_aprom: the frame is sent, no ack is read and main() ignores the
\* return code.
RunAprom ==
    /\ pc = "run_aprom"
    /\ \E wrote \in BOOLEAN : send_cmd(GenericCmd(CMD_RUN_APROM), wrote)
    /\ pc' = "finish"
    /\ UNCHANGED <<exit_status, args, flash, cfg, rcvd>>

\* sp_close, sp_free_port, return 0
Finish ==
    /\ pc = "finish"
    /\ pc' = "exit"
    /\ exit_status' = 0
    /\ UNCHANGED <<rc, args, flash, cfg, sent, rcvd>>

\* The session, from dev_connect() to the end of main().
Session ==
    \/ ConnectSend \/ ConnectRead
    \/ SyncSend \/ SyncRead
    \/ FwverSend \/ FwverRead
    \/ DevidSend \/ DevidRead
    \/ RdcfgSend \/ RdcfgRead
    \/ SetNewConfigOptions \/ UpdcfgRead \/ Rdcfg2Send \/ Rdcfg2Read
    \/ FlashOpen \/ FlashSend \/ FlashRead
    \/ RunAprom \/ Finish

Next == OptAprom \/ OptConfig \/ OptRemainIsp \/ ArgsDone \/ Session

Spec == Init /\ [][Next]_vars

(***************************************************************************)
(* The session entered with the counter anywhere in its range: dev_connect *)
(* has no retry bound, so by the time the device answers the counter may   *)
(* be about to carry out of its low half or to wrap at 2^32.  wire, writes *)
(* and reads record the frames and calls from this point on.               *)
(***************************************************************************)
CounterStarts == { U32(INITIAL_PKT_NUM),
                   [hi |-> 0, lo |-> U16 - 3],
                   [hi |-> U16 - 1, lo |-> U16 - 3] }

InitLate ==
    /\ pc = "connect_send"
    /\ exit_status = -1
    /\ rc = "OK"
    /\ pkt_num \in CounterStarts
    /\ checksum = 0
    /\ ack = [checksum |-> 0, pkt_num |-> U32(0), pad |-> Zeros(PAD_SIZE)]
    /\ aprom_size = 0
    /\ aprom_file \in {-1, 49}
    /\ remain_isp \in BOOLEAN
    /\ has_config_opts \in BOOLEAN
    /\ config_current = Zeros(CONFIG_SIZE)
    /\ config_new = IF has_config_opts
                    THEN process_config_options(<< SubOpt("rpd", "1") >>,
                             Zeros(CONFIG_SIZE), Zeros(CONFIG_SIZE)).new
                    ELSE Zeros(CONFIG_SIZE)
    /\ config_mask = IF has_config_opts
                     THEN process_config_options(<< SubOpt("rpd", "1") >>,
                              Zeros(CONFIG_SIZE), Zeros(CONFIG_SIZE)).mask
                     ELSE Zeros(CONFIG_SIZE)
    /\ config_update = Zeros(CONFIG_SIZE)
    /\ cmd = ZeroCmd
    /\ wire = << >>
    /\ writes = 0
    /\ reads = 0
    /\ silent = 0
    /\ sp_rc = "len"
    /\ timeout = NONBLOCKING
    /\ nopts = 0
    /\ first = TRUE
    /\ total_length = 0
    /\ offset = 0
    /\ to_copy = 0
    /\ blocks = << >>

SpecLate == InitLate /\ [][Session]_vars

(***************************************************************************)
(* set_new_config_options as a function of the three config arrays: it is  *)
(* entered with any current, new and mask bytes.                           *)
(***************************************************************************)
ConfigValues == { << 0, 0, 0, 0, 0 >>, << 4, 0, 0, 0, 0 >>,
                  << 15, 15, 15, 15, 15 >>, << 170, 248, 255, 0, 15 >>,
                  << 107, 248, 255, 255, 255 >>, << 255, 255, 255, 255, 255 >> }

InitMerge ==
    /\ pc = "setcfg"
    /\ exit_status = -1
    /\ rc = "OK"
    /\ pkt_num = U32(INITIAL_PKT_NUM + 5)
    /\ checksum = 0
    /\ config_current \in ConfigValues
    /\ config_new \in ConfigValues
    /\ config_mask \in ConfigValues
    /\ ack = [checksum |-> 0, pkt_num |-> pkt_num, pad |-> Pad(config_current)]
    /\ aprom_size = LdsizeAprom(LdsizeField(config_current)) * KB
    /\ aprom_file = -1
    /\ remain_isp = FALSE
    /\ has_config_opts = TRUE
    /\ config_update = Zeros(CONFIG_SIZE)
    /\ cmd = ZeroCmd
    /\ wire = << >>
    /\ writes = 0
    /\ reads = 0
    /\ silent = 0
    /\ sp_rc = "len"
    /\ timeout = NONBLOCKING
    /\ nopts = 0
    /\ first = TRUE
    /\ total_length = 0
    /\ offset = 0
    /\ to_copy = 0
    /\ blocks = << >>

ConfigWrite == SetNewConfigOptions \/ UpdcfgRead \/ Rdcfg2Send \/ Rdcfg2Read

SpecMerge == InitMerge /\ [][ConfigWrite]_vars

(***************************************************************************)
(* Properties.                                                             *)
(***************************************************************************)
\* The last frame the transport took.
LastFrame == wire[Len(wire)]

\* read_response has just returned 0: a full reply passed both checks.
AckAccepted == reads > 0 /\ reads = writes /\ rc = "OK"

\* C1 (as stated): an ack is accepted only if its packet-number field equals
\* the packet number stamped into the command frame it answers.
C1_AckEchoesStampedNumber ==
    [][(reads' = reads + 1 /\ rc' = "OK")
         => ack'.pkt_num = LastFrame.pkt_num]_vars

\* C1 (amended): an ack is accepted only if its packet-number field equals
\* the stamped packet number of the command frame plus one modulo 2^32 (the
\* counter's value after the send); any other packet number is rejected.
C1_AckCarriesNextNumber ==
    [][(reads' = reads + 1)
         => (rc' = "OK" => ack'.pkt_num = Add32(LastFrame.pkt_num, 1))]_vars

\* C1 witness: a whole session's acks were accepted, the flash frames' too.
C1_Witness ==
    /\ pc = "finish" /\ AckAccepted /\ blocks # << >>
    /\ ack.pkt_num = Add32(LastFrame.pkt_num, 1)
    /\ ack.pkt_num # LastFrame.pkt_num

RECURSIVE SeqSum(_)
SeqSum(s) == IF s = << >> THEN 0 ELSE Head(s) + SeqSum(Tail(s))

\* C2: an ack is accepted only if its checksum field equals the sum of all
\* 64 bytes of the most recently sent command frame, packet number stamped.
C2_AckChecksumIsCommandSum ==
    [][(reads' = reads + 1)
         => (rc' = "OK" =>
               /\ Len(FrameBytes(LastFrame)) = PKT_SIZE
               /\ LastFrame.pkt_num = Pred32(pkt_num)
               /\ ack'.checksum = SeqSum(FrameBytes(LastFrame)))]_vars

\* C2 witness: the ack of a flash continuation frame was accepted, and its
\* checksum is not the sum of the ack's own bytes.
C2_Witness ==
    /\ AckAccepted /\ Len(blocks) > 1 /\ LastFrame.cmd = CMD_CONTINUE
    /\ ack.checksum = SeqSum(FrameBytes(LastFrame))
    /\ ack.checksum # SeqSum(LE32(ack.checksum) \o LE32Halves(ack.pkt_num)
                             \o ack.pad)

\* The device ignored the first two CONNECT frames and acked the third.
ThirdProbeAcked ==
    /\ pc = "sync_send" /\ rc = "OK"
    /\ writes = 3 /\ reads = 3 /\ silent = 2

\* C3 (as stated): after two ignored CONNECT frames and an acked third, the
\* counter has advanced by exactly one from its initial value.
C3_CounterAdvancedByOne ==
    ThirdProbeAcked => pkt_num = Add32(U32(INITIAL_PKT_NUM), 1)

\* C3 (amended): after two ignored CONNECT frames and an acked third,
\* dev_connect has returned success and the counter has advanced by exactly
\* three: every CONNECT frame the transport took advanced it, answered or not.
C3_CounterAdvancedByThree ==
    ThirdProbeAcked => pkt_num = Add32(U32(INITIAL_PKT_NUM), 3)

C3_Witness == ThirdProbeAcked /\ Len(wire) = 3 /\ LastFrame.cmd = CMD_CONNECT

\* C4: from the counter value P stamped into an ordinary frame, the frame
\* sent N successful send/ack cycles later carries (P + N) mod 2^32, and so
\* does the counter once that many cycles are over: an ack never moves it.
C4_CounterIsStartPlusCycles ==
    \A i \in 1..Len(wire) :
        wire[i].cmd # CMD_CONNECT =>
          /\ \A j \in i..Len(wire) :
                wire[j].pkt_num = Add32(wire[i].pkt_num, j - i)
          /\ pkt_num = Add32(wire[i].pkt_num, Len(wire) - i + 1)

\* C4 witness: four cycles, in which the counter wrapped at 2^32.
C4_Witness ==
    /\ AckAccepted /\ Len(wire) >= 5
    /\ wire[2].cmd = CMD_SYNC_PACKNO
    /\ wire[2].pkt_num = [hi |-> U16 - 1, lo |-> U16 - 2]
    /\ pkt_num = U32(2)

\* C5: the SYNC_PACKNO frame carries in rn the counter value stamped into
\* its packet-number field.
C5_SyncCarriesCounter ==
    \A i \in 1..Len(wire) :
        wire[i].cmd = CMD_SYNC_PACKNO =>
          SubSeq(wire[i].pad, 1, 4) = LE32Halves(wire[i].pkt_num)

\* (current AND NOT mask) OR (desired AND mask)
MaskedMerge(current, desired, mask) ==
    Or8(And8(current, Not8(mask)), And8(desired, mask))

C7_NoChangeNoTransaction ==
    [][(pc = "setcfg" /\ config_update' = config_current) =>
         /\ rc' = "OK"
         /\ pc' = AfterConfig
         /\ exit_status' = exit_status
         /\ UNCHANGED <<wire, writes, reads, ack, pkt_num, checksum,
                        config_current>>
      ]_vars

\* C7 witness: -c was given, the config step is over and the last frame on
\* the wire is still main()'s READ_CONFIG.
C7_Witness ==
    /\ has_config_opts /\ config_mask[1] = RPD_BIT
    /\ pc = "finish" /\ remain_isp /\ aprom_file = -1
    /\ config_update = config_current
    /\ LastFrame.cmd = CMD_READ_CONFIG
    /\ wire[Len(wire) - 1].cmd = CMD_GET_DEVICEID

\* C8: an image of length 0, or longer than the resolved APROM capacity, is
\* rejected with an error before any frame is sent: no UPDATE_APROM frame
\* reaches the transport and the counter is unchanged.
C8_BadSizeRejectedBeforeSend ==
    /\ [][(pc = "flash_open" /\ (aprom_file = 0 \/ aprom_file > aprom_size)) =>
            /\ pc' = "exit" /\ exit_status' = 1 /\ rc' # "OK"
            /\ UNCHANGED <<wire, writes, pkt_num>>
         ]_vars
    /\ []((aprom_file = 0 \/ aprom_file > aprom_size) =>
            \A i \in 1..Len(wire) : wire[i].cmd # CMD_UPDATE_APROM)

\* C8 witness: an image one byte over the largest APROM was refused.
C8_Witness ==
    /\ pc = "exit" /\ exit_status = 1 /\ rc = "E2BIG"
    /\ aprom_size > 0 /\ aprom_file > aprom_size
    /\ LastFrame.cmd = CMD_READ_CONFIG /\ blocks = << >>

\* C8, the empty image: refused the same way.
C8_WitnessEmpty ==
    /\ pc = "exit" /\ exit_status = 1 /\ rc = "EBADF"
    /\ aprom_file = 0 /\ blocks = << >>

\* The block sizes of an image of the given length: 48, then 56 at a time.
RECURSIVE Chunks(_, _)
Chunks(left, room) ==
    IF left = 0 THEN << >>
    ELSE IF left <= room THEN << left >>
    ELSE << room >> \o Chunks(left - room, APROM2_DATA_SIZE)

ExpectedBlocks(length) == Chunks(length, APROM_DATA_SIZE)

\* The flash frames on the wire, and the m-th of them.
FlashIdx == { i \in 1..Len(wire) : wire[i].cmd \in {CMD_UPDATE_APROM, CMD_CONTINUE} }
FlashFrame(m) == wire[(CHOOSE k \in FlashIdx : \A i \in FlashIdx : k <= i) + m - 1]

\* The image bytes [from, from + n), as the claim's own arithmetic gives them.
ImageSlice(from, n) == [i \in 1..n |-> (37 * (from + i - 1) + 1) % 256]

\* The transfer ran to its end.
FlashDone == blocks # << >> /\ total_length = 0

\* C9: for 0 < T <= C and valid acks the transfer sends UPDATE_APROM with
\* start_addr 0, total_length T and min(T, 48) bytes, then opcode-0 frames of
\* 56 bytes, the last possibly shorter; the sizes sum to T, the loop ends
\* exactly when the cursor reaches T, and T = 236 gives [48, 56, 56, 56, 20].
C9_FlashFrameSequence ==
    blocks # << >> =>
      LET E == ExpectedBlocks(aprom_file)
          n == Cardinality(FlashIdx)
      IN /\ 0 < aprom_file /\ aprom_file <= aprom_size
         /\ Len(blocks) <= Len(E)
         /\ \A m \in 1..Len(blocks) : blocks[m] = E[m]
         /\ n \in { Len(blocks) - 1, Len(blocks) }
         /\ \A m \in 1..n :
              LET before == SeqSum(SubSeq(E, 1, m - 1)) IN
              FlashFrame(m) =
                IF m = 1
                THEN [cmd |-> CMD_UPDATE_APROM,
                      pkt_num |-> FlashFrame(m).pkt_num,
                      pad |-> LE32(0) \o LE32(aprom_file)
                              \o ImageSlice(0, E[1])
                              \o Zeros(APROM_DATA_SIZE - E[1])]
                ELSE [cmd |-> CMD_CONTINUE,
                      pkt_num |-> FlashFrame(m).pkt_num,
                      pad |-> ImageSlice(before, E[m])
                              \o Zeros(APROM2_DATA_SIZE - E[m])]
         /\ offset = SeqSum(blocks)
                       - (IF pc = "flash_send" \/ FlashDone THEN 0
                          ELSE blocks[Len(blocks)])
         /\ (pc \in {"flash_send", "flash_read"} => offset < aprom_file)
         /\ (FlashDone =>
               /\ blocks = E /\ n = Len(E)
               /\ SeqSum(blocks) = aprom_file /\ offset = aprom_file
               /\ pc \notin {"flash_send", "flash_read"}
               /\ (aprom_file = 236 => blocks = << 48, 56, 56, 56, 20 >>))

\* C9 witness: the 236-byte image went out in five frames.
C9_Witness ==
    /\ aprom_file = 236 /\ FlashDone /\ pc = "finish"
    /\ blocks = << 48, 56, 56, 56, 20 >>
    /\ Cardinality(FlashIdx) = 5

\* C10: only device id 0x3650 passes the gate; with any other id (or no valid
\* GET_DEVICEID ack) the session aborts with an error and no READ_CONFIG or
\* later frame is ever sent.
C10_DeviceIdGate ==
    /\ [][pc = "devid_read" =>
            IF rc' = "OK" /\ FromLE32(SubSeq(ack'.pad, 1, 4)) = 13904
            THEN pc' = "rdcfg_send" /\ exit_status' = -1
            ELSE pc' = "exit" /\ exit_status' = 1
         ]_vars
    /\ [][pc = "exit" => (pc' = "exit" /\ wire' = wire /\ writes' = writes)]_vars
    /\ [](\A i \in 1..Len(wire) :
            wire[i].cmd = CMD_READ_CONFIG =>
              /\ i > 1 /\ wire[i - 1].cmd \in {CMD_GET_DEVICEID, CMD_UPDATE_CONFIG})

\* C10 witness: a valid ack carrying id 0x1234 ended the run after
\* GET_DEVICEID.
C10_Witness ==
    /\ pc = "exit" /\ exit_status = 1 /\ rc = "OK"
    /\ LastFrame.cmd = CMD_GET_DEVICEID
    /\ FromLE32(SubSeq(ack.pad, 1, 4)) = 4660
    /\ \A i \in 1..Len(wire) : wire[i].cmd # CMD_READ_CONFIG

(***************************************************************************)
(* The order of the frames of a session.                                   *)
(***************************************************************************)
\* The opcodes of the frames the transport took, in order.
Opcodes == [i \in 1..Len(wire) |-> wire[i].cmd]

\* Positions in the opcode order: 0 nothing sent, 1 probing, 2 synced,
\* 3 version read, 4 id read, 5 config read, 6 config written, 7 config
\* re-read, 8 flashing, 9 APROM started; -1 is out of order.
OrderStep(q, op) ==
    CASE q \in {0, 1} /\ op = CMD_CONNECT       -> 1
      [] q = 1 /\ op = CMD_SYNC_PACKNO          -> 2
      [] q = 2 /\ op = CMD_GET_FWVER            -> 3
      [] q = 3 /\ op = CMD_GET_DEVICEID         -> 4
      [] q = 4 /\ op = CMD_READ_CONFIG          -> 5
      [] q = 5 /\ op = CMD_UPDATE_CONFIG        -> 6
      [] q = 6 /\ op = CMD_READ_CONFIG          -> 7
      [] q \in {5, 7} /\ op = CMD_UPDATE_APROM  -> 8
      [] q = 8 /\ op = CMD_CONTINUE             -> 8
      [] q \in {5, 7, 8} /\ op = CMD_RUN_APROM  -> 9
      [] OTHER                                  -> -1

RECURSIVE OrderRun(_, _)
OrderRun(q, ops) ==
    IF ops = << >> \/ q = -1 THEN q
    ELSE OrderRun(OrderStep(q, Head(ops)), Tail(ops))

OnWire(op) == \E i \in 1..Len(wire) : wire[i].cmd = op

\* dev_run_aprom has been called: RUN_APROM is the last command handed to
\* send_cmd.
RunApromAttempted == cmd.cmd = CMD_RUN_APROM

\* C11: the frames on the wire are, in this order, one or more CONNECT,
\* SYNC_PACKNO, GET_FWVER, GET_DEVICEID, READ_CONFIG, then UPDATE_CONFIG and
\* READ_CONFIG only when config options were given and the merged bytes
\* differ, then UPDATE_APROM followed by continuation frames only when an
\* image was given, then RUN_APROM; the run stops anywhere in this order on a
\* failure.  RUN_APROM is handed to the transport exactly when the session
\* reached its end without a failure and remain-in-ISP was not requested,
\* and nothing is written after it.
C11_FrameOrder ==
    /\ OrderRun(0, Opcodes) # -1
    /\ OnWire(CMD_UPDATE_CONFIG) =>
         /\ has_config_opts
         /\ wire[Len(wire)].cmd = CMD_UPDATE_CONFIG =>
              /\ LastFrame.pad = Pad(config_update)
              /\ ConfigChanges(config_update, config_current)
    /\ OnWire(CMD_UPDATE_APROM) => aprom_file # -1
    /\ RunApromAttempted => ~remain_isp
    /\ OnWire(CMD_RUN_APROM) =>
         LastFrame.cmd = CMD_RUN_APROM /\ writes = Len(wire)
    /\ pc \in {"finish", "exit"} =>
         (RunApromAttempted <=>
            (~remain_isp /\ (pc = "finish" \/ exit_status = 0)))
    /\ pc = "finish" =>
         /\ OrderRun(0, Opcodes) \in
              (IF remain_isp \/ ~OnWire(CMD_RUN_APROM) THEN {5, 7, 8} ELSE {9})
         /\ OnWire(CMD_UPDATE_APROM) <=> aprom_file # -1

\* A full session: probes, the four queries, a config write, a two-frame
\* image and RUN_APROM are all on the wire.
C11_Witness ==
    /\ pc = "finish"
    /\ OrderRun(0, Opcodes) = 9
    /\ OnWire(CMD_UPDATE_CONFIG)
    /\ OnWire(CMD_CONTINUE)
    /\ Len(wire) > 10

(***************************************************************************)
(* Requests in flight.                                                     *)
(***************************************************************************)
\* Ack a answers frame f: it carries f's packet number plus one and the sum
\* of f's 64 bytes.
Answers(a, f) ==
    /\ a.pkt_num = Add32(f.pkt_num, 1)
    /\ a.checksum = SeqSum(FrameBytes(f))

\* The ack of the last frame on the wire has been read in full and passed
\* both checks.
LastFrameAcked ==
    /\ Len(wire) > 0
    /\ reads = Len(wire)
    /\ sp_rc = "len"
    /\ Answers(ack, LastFrame)

\* A frame sent earlier is still waiting for its ack.
InFlight == Len(wire) > 0 /\ ~LastFrameAcked

\* C12 (as stated): no command frame, CONNECT probes included, is sent while
\* the ack of a previously sent frame has not been received and validated.
C12_OneRequestInFlight ==
    [][(writes' = writes + 1) => ~InFlight]_vars

\* C12 (amended): no frame other than a CONNECT probe is sent while the ack
\* of the previously sent frame has not been received and validated; a
\* CONNECT probe is sent again exactly when the read after the previous
\* probe brought no valid ack.
C12_OneRequestInFlightAfterConnect ==
    [][(writes' = writes + 1)
         => /\ cmd'.cmd # CMD_CONNECT => ~InFlight
            /\ (cmd'.cmd = CMD_CONNECT /\ writes > 0) =>
                 /\ InFlight
                 /\ reads = Len(wire)
                 /\ LastFrame.cmd = CMD_CONNECT]_vars

\* C12 witness: SYNC_PACKNO is awaiting its ack after a probe that was never
\* answered and one that was.
C12_Witness ==
    /\ pc = "sync_read"
    /\ Len(wire) = 3
    /\ silent = 1
    /\ wire[1].cmd = CMD_CONNECT /\ wire[2].cmd = CMD_CONNECT
    /\ reads = 2

(***************************************************************************)
(* Synchronous operations.                                                 *)
(***************************************************************************)
\* The places where an operation has written its frame and has not yet
\* returned from read_response.
AwaitingAck == { "connect_read", "sync_read", "fwver_read", "devid_read",
                 "rdcfg_read", "updcfg_read", "rdcfg2_read", "flash_read" }

\* The operation that wrote the last frame on the wire has returned.
LastOperationReturned == Len(wire) > 0 /\ pc \notin AwaitingAck

\* read_response(SERIAL_TIMEOUT) has been called for the last frame on the
\* wire and has returned: with 64 bytes, at the timeout, or with an error.
LastFrameWaitedFor ==
    /\ reads = Len(wire)
    /\ timeout = SERIAL_TIMEOUT
    /\ sp_rc \in {"len", "short", "error"}

\* C13 (as stated): every operation other than the connect probe, run_aprom
\* included, returns only after its frame was sent and its ack was received
\* or the bounded timeout elapsed.
C13_EveryOperationWaits ==
    (LastOperationReturned /\ LastFrame.cmd # CMD_CONNECT)
        => LastFrameWaitedFor

\* C13 (amended): every operation other than the connect probe and
\* run_aprom returns only after its frame was written and read_response
\* with the 5000 ms timeout has returned for it; run_aprom returns as soon
\* as its frame is written, without reading an ack.
C13_OperationsWaitExceptRunAprom ==
    /\ (LastOperationReturned /\ LastFrame.cmd \notin {CMD_CONNECT, CMD_RUN_APROM})
         => LastFrameWaitedFor
    /\ (LastOperationReturned /\ LastFrame.cmd = CMD_RUN_APROM)
         => reads = Len(wire) - 1

\* C13 witness: the run ended after RUN_APROM was written, every other frame
\* having been waited for, one of them until the timeout.
C13_Witness ==
    /\ pc = "exit"
    /\ Len(wire) > 0
    /\ LastFrame.cmd = CMD_RUN_APROM
    /\ reads = Len(wire) - 1
    /\ silent > 0

(***************************************************************************)
(* Exit status.                                                            *)
(***************************************************************************)
\* C14: whenever a step fails (its return code is an error; a connect read
\* that only leads to the next probe is not a failed step), the session
\* stops and the process ends with a non-zero status; in particular the
\* process never ends with status 0 after a step that returned an error,
\* run_aprom included.
C14_FailureExitsNonZero ==
    [][(rc' # "OK" /\ pc # "connect_read")
         => (pc' = "exit" /\ exit_status' # 0)]_vars

(***************************************************************************)
(* The connect handshake.                                                  *)
(***************************************************************************)
\* The read just made brought a full 64-byte ack that answers the last
\* frame on the wire.
ValidAckRead == sp_rc' = "len" /\ Answers(ack', LastFrame)

\* C15: dev_connect has no retry bound and one success exit.  Whatever the
\* number of probes so far, a probe the transport took is followed by a
\* non-blocking read; if that read brings a full 64-byte ack with matching
\* checksum and sequence the handshake returns success and the session is
\* connected, and after any other read (short, absent or invalid reply)
\* the session is not connected, the run goes on and the next thing
\* dev_connect does is send another CONNECT frame.
C15_ConnectRetriesUntilValidAck ==
    /\ [][pc = "connect_read" =>
            /\ reads' = reads + 1 /\ timeout' = NONBLOCKING
            /\ IF ValidAckRead
               THEN pc' = "sync_send" /\ rc' = "OK"
               ELSE pc' = "connect_send" /\ rc' # "OK"
            /\ exit_status' = -1]_vars
    /\ [][pc = "connect_send" =>
            /\ writes' = writes + 1
            /\ cmd'.cmd = CMD_CONNECT
            /\ wire' # wire => pc' = "connect_read"]_vars

\* C15 witness: connected by the third probe, after a read that brought
\* nothing and a read that brought an invalid ack.
C15_Witness ==
    /\ pc = "sync_send"
    /\ writes = 3 /\ reads = 3 /\ silent = 1
    /\ LastFrameAcked

\* C16: during the connect handshake an I/O error of the transport, on the
\* write of a probe or on the read that follows it, ends the handshake at
\* once with that error, and the run with it; it is never retried.
C16_ConnectIoErrorAborts ==
    [][(pc \in {"connect_send", "connect_read"}
          /\ \/ (writes' = writes + 1 /\ wire' = wire)
             \/ (reads' = reads + 1 /\ sp_rc' = "error"))
         => (rc' # "OK" /\ pc' = "exit" /\ exit_status' # 0)]_vars

(***************************************************************************)
(* The config write.                                                       *)
(***************************************************************************)
\* The merged configuration: per byte (current AND NOT mask) OR
\* (desired AND mask).
MergedConfig ==
    [i \in 1..CONFIG_SIZE |->
        MaskedMerge(config_current[i], config_new[i], config_mask[i])]

\* C17: when the merged bytes differ from the current configuration,
\* set_new_config_options sends UPDATE_CONFIG carrying the merged bytes,
\* reads and validates its ack, then sends READ_CONFIG and, on a valid ack,
\* replaces the current configuration with the bytes of that reply, not
\* with the bytes it sent; when either exchange fails the current
\* configuration is left as it was and an error is returned.
C17_ConfigWriteSequence ==
    [][/\ (pc = "setcfg" /\ MergedConfig # config_current) =>
            /\ writes' = writes + 1
            /\ cmd'.cmd = CMD_UPDATE_CONFIG
            /\ cmd'.pad = Pad(MergedConfig)
            /\ config_current' = config_current
            /\ IF wire' # wire
               THEN pc' = "updcfg_read" /\ LastFrame' = cmd'
               ELSE rc' # "OK" /\ pc' = "exit"
       /\ pc = "updcfg_read" =>
            /\ reads' = reads + 1
            /\ config_current' = config_current
            /\ IF ValidAckRead
               THEN pc' = "rdcfg2_send"
               ELSE rc' # "OK" /\ pc' = "exit"
       /\ pc = "rdcfg2_send" =>
            /\ writes' = writes + 1
            /\ cmd'.cmd = CMD_READ_CONFIG
            /\ config_current' = config_current
            /\ IF wire' # wire
               THEN pc' = "rdcfg2_read"
               ELSE rc' # "OK" /\ pc' = "exit"
       /\ pc = "rdcfg2_read" =>
            /\ reads' = reads + 1
            /\ IF ValidAckRead
               THEN /\ config_current' = SubSeq(ack'.pad, 1, CONFIG_SIZE)
                    /\ rc' = "OK" /\ pc' # "exit"
               ELSE /\ config_current' = config_current
                    /\ rc' # "OK" /\ pc' = "exit"]_vars

\* C17 witness: the configuration was written and read back, and the bytes
\* read back, now the current configuration, are not the bytes sent.
C17_Witness ==
    /\ Len(wire) > 1
    /\ wire[Len(wire) - 1].cmd = CMD_UPDATE_CONFIG
    /\ LastFrame.cmd = CMD_READ_CONFIG
    /\ LastFrameAcked
    /\ pc \in {"flash_open", "run_aprom", "finish"}
    /\ config_current = SubSeq(ack.pad, 1, CONFIG_SIZE)
    /\ config_current # config_update

(***************************************************************************)
(* Stop-and-wait in the flash transfer.                                    *)
(***************************************************************************)
\* Image bytes carried by the flash frames on the wire.
BytesSent == SeqSum(SubSeq(blocks, 1, Cardinality(FlashIdx)))

\* The block of the last flash frame on the wire.
LastBlock == blocks[Cardinality(FlashIdx)]

\* C18: the flash transfer is stop-and-wait.  A flash frame is built and
\* sent only when the ack of the frame before it has been read and has
\* passed both checks, the cursor advances by a block only when that
\* block's ack has been read and validated, and the bytes sent so far are
\* always the validated prefix plus at most one outstanding block.
C18_FlashStopAndWait ==
    /\ [](\/ BytesSent = offset
          \/ FlashIdx # {} /\ BytesSent = offset + LastBlock)
    /\ [][pc = "flash_send" =>
            /\ LastFrameAcked
            /\ BytesSent = offset
            /\ offset' = offset]_vars
    /\ [][pc = "flash_read" =>
            IF ValidAckRead
            THEN offset' = offset + LastBlock /\ BytesSent = offset'
            ELSE offset' = offset /\ pc' = "exit"]_vars

\* C18 witness: the third flash frame is out and unacknowledged, the cursor
\* stands behind the two acknowledged blocks.
C18_Witness ==
    /\ pc = "flash_read"
    /\ Cardinality(FlashIdx) = 3
    /\ offset = APROM_DATA_SIZE + APROM2_DATA_SIZE
    /\ BytesSent = offset + APROM2_DATA_SIZE

(***************************************************************************)
(* No retry outside the connect handshake.                                 *)
(***************************************************************************)
\* The transport refused the frame of a step other than the connect probe.
SendFailed == writes > Len(wire) /\ cmd.cmd # CMD_CONNECT

\* The read for the frame of a step other than the connect probe timed
\* out, failed, or brought an ack that does not pass both checks.
AckFailed ==
    /\ Len(wire) > 0
    /\ LastFrame.cmd \notin {CMD_CONNECT, CMD_RUN_APROM}
    /\ reads = Len(wire)
    /\ ~LastFrameAcked

\* C19: the connect probe is the only retry.  Once a send failed, an ack
\* timed out or an ack failed validation in a step other than the connect
\* probe, no command frame is written again in that run, neither the same
\* frame nor a later one.
C19_NoFrameAfterFailure ==
    [][(SendFailed \/ AckFailed) => (writes' = writes /\ wire' = wire)]_vars

\* C19 witness: the run is over after the ack of the second flash frame
\* timed out, the image not sent in full.
C19_Witness ==
    /\ pc = "exit"
    /\ AckFailed
    /\ sp_rc = "short"
    /\ Cardinality(FlashIdx) = 2
    /\ BytesSent < aprom_file

(***************************************************************************)
(* The capacity limit.  The capacity is resolved by READ_CONFIG and used   *)
(* by the size checks of dev_update_aprom; these are explored from the     *)
(* state after GET_DEVICEID, for images at every capacity's edge.          *)
(***************************************************************************)
CapSizes == { 1, 14336, 14337, 15360, 15361, 16384, 16385, 17408, 17409,
              18432, 18433 }

InitCap ==
    /\ pc = "rdcfg_send"
    /\ exit_status = -1
    /\ rc = "OK"
    /\ pkt_num = U32(INITIAL_PKT_NUM + 4)
    /\ checksum = 0
    /\ ack = [checksum |-> 0, pkt_num |-> pkt_num, pad |-> Zeros(PAD_SIZE)]
    /\ aprom_size = 0
    /\ aprom_file \in CapSizes
    /\ remain_isp \in BOOLEAN
    /\ has_config_opts = FALSE
    /\ config_current = Zeros(CONFIG_SIZE)
    /\ config_new = Zeros(CONFIG_SIZE)
    /\ config_mask = Zeros(CONFIG_SIZE)
    /\ config_update = Zeros(CONFIG_SIZE)
    /\ cmd = ZeroCmd
    /\ wire = << >>
    /\ writes = 0
    /\ reads = 0
    /\ silent = 0
    /\ sp_rc = "len"
    /\ timeout = SERIAL_TIMEOUT
    /\ nopts = 0
    /\ first = TRUE
    /\ total_length = 0
    /\ offset = 0
    /\ to_copy = 0
    /\ blocks = << >>

Capacity == RdcfgSend \/ RdcfgRead \/ FlashOpen

SpecCap == InitCap /\ [][Capacity]_vars

\* APROM kilobytes for an ldsize value: 0..3 -> 14, 4 -> 15, 5 -> 16,
\* 6 -> 17, 7 -> 18.
ApromKb(l) == IF l <= 3 THEN 14 ELSE 11 + l

\* C20: the capacity the flash precondition uses is 1024 times the APROM
\* kilobytes the table gives for the 3-bit ldsize field (byte 1, low three
\* bits) of the READ_CONFIG reply main() accepted; so wherever the
\* precondition is evaluated or an image is being sent the capacity lies
\* between 14336 and 18432, an image above the capacity is rejected, and an
\* accepted image never exceeds the 18 KiB buffer.
C20_CapacityFromLdsize ==
    /\ [][(pc = "rdcfg_read" /\ ValidAckRead)
            => aprom_size' = 1024 * ApromKb(ack'.pad[2] % 8)]_vars
    /\ [][pc # "rdcfg_read" => aprom_size' = aprom_size]_vars
    /\ [](pc \in {"flash_open", "flash_send", "flash_read"}
            => (14336 <= aprom_size /\ aprom_size <= 18432))
    /\ [][(pc = "flash_open" /\ aprom_file > aprom_size)
            => (pc' = "exit" /\ rc' # "OK")]_vars
    /\ [](pc \in {"flash_send", "flash_read"}
            => (aprom_file <= aprom_size /\ aprom_file <= BUF_SIZE))

\* C20 witness: ldsize 7 gave 18432 bytes and an image of exactly that size
\* was accepted.
C20_Witness ==
    /\ pc = "flash_send"
    /\ config_current[2] % 8 = 7
    /\ aprom_size = 18432
    /\ total_length = 18432
    /\ total_length = BUF_SIZE

(***************************************************************************)
(* Late acks in the connect handshake.                                     *)
(***************************************************************************)
\* Ack a answers a frame sent before the last one.
AnswersEarlierFrame(a) == \E i \in 1..(Len(wire) - 1) : Answers(a, wire[i])

\* Any two CONNECT probes on the wire carry different packet numbers and
\* have different byte sums.
ProbesDiffer ==
    \A i, j \in 1..Len(wire) :
        (i < j /\ wire[i].cmd = CMD_CONNECT /\ wire[j].cmd = CMD_CONNECT)
            => /\ wire[i].pkt_num # wire[j].pkt_num
               /\ SeqSum(FrameBytes(wire[i])) # SeqSum(FrameBytes(wire[j]))

SameOutside(a, b, w) == And8(a, Not8(w)) = And8(b, Not8(w))

\* C22: after any sequence of -c options, repeated and contradictory ones
\* included, every bit set in the desired bytes is set in the mask bytes and
\* the mask has no bit set other than RPD (bit 2 of byte 0); so the bytes an
\* UPDATE_CONFIG frame carries differ from the current configuration at
\* most in the RPD bit.
C22_OnlyRpdChanges ==
    /\ [](/\ \A i \in 1..CONFIG_SIZE :
               And8(config_new[i], Not8(config_mask[i])) = 0
          /\ config_mask[1] \in {0, 4}
          /\ \A i \in 2..CONFIG_SIZE : config_mask[i] = 0)
    /\ [][(writes' = writes + 1 /\ cmd'.cmd = CMD_UPDATE_CONFIG)
            => /\ SameOutside(cmd'.pad[1], config_current[1], 4)
               /\ \A i \in 2..CONFIG_SIZE : cmd'.pad[i] = config_current[i]]_vars

\* C22 witness: after three options, the last one clearing what an earlier
\* one had set, UPDATE_CONFIG went out with RPD cleared and nothing else
\* changed.
C22_Witness ==
    /\ pc = "updcfg_read"
    /\ nopts = 3
    /\ config_mask[1] = 4 /\ config_new[1] = 0
    /\ LastFrame.cmd = CMD_UPDATE_CONFIG
    /\ LastFrame.pad[1] = config_current[1] - 4
    /\ LastFrame.pad[2] = config_current[2]

====
